---- MODULE Spec2Model ----
(***************************************************************************)
(* Position ledger, trading calendar and session registrar of the A-share  *)
(* trading agent (tools/price_tools.py, BaseAgentAStock).                  *)
(*                                                                         *)
(* Encoding of the data:                                                   *)
(*  - a calendar day is an integer; day 0 is Friday 2025-10-10, so         *)
(*    datetime.weekday() of day d is (d + 4) % 7 (Monday = 0);             *)
(*  - a timestamp STRING is a record [kind, day, hour, pad]:               *)
(*      kind = "date"  'YYYY-MM-DD'           (hour = 0, pad = TRUE)       *)
(*      kind = "time"  'YYYY-MM-DD H:00:00'   pad = TRUE when the hour is  *)
(*                     written with two digits ('09', '10'), FALSE when a  *)
(*                     one-digit hour is written un-padded ('9');          *)
(*    two strings are equal exactly when the records are equal;            *)
(*  - a parsed datetime is the number of hours since day 0, 00:00;         *)
(*  - a positions dict is a function from its keys to quantities, the      *)
(*    empty dict {} being the function with empty domain;                  *)
(*  - a JSON-lines file is [exists, lines].                                *)
(***************************************************************************)
EXTENDS Integers, Sequences, FiniteSets, TLC

VARIABLES
    ledgerExists,   \* position.jsonl exists on disk
    ledger,         \* the lines of position.jsonl, in file order
    priceLog,       \* the market's merged.jsonl / merged_hourly.jsonl files
    if_trade,       \* the IF_TRADE value of the runtime configuration
    today_cfg,      \* the TODAY_DATE value of the runtime configuration
    signature_cfg,  \* the SIGNATURE value of the runtime configuration
    trading_dates,  \* run_date_range: the sessions not yet completed
    attempt,        \* run_with_retry: the attempt under way, 0 outside of it
    pc,             \* where run_date_range stands
    self_max_retries,  \* the max_retries the agent was constructed with
    save_item       \* add_no_trade_record: the line each caller has built

replayVars == <<if_trade, today_cfg, signature_cfg, trading_dates, attempt, pc,
                self_max_retries, save_item>>
vars == <<ledgerExists, ledger, priceLog, if_trade, today_cfg, signature_cfg,
          trading_dates, attempt, pc, self_max_retries, save_item>>

----------------------------------------------------------------------------
(* Bounds of the model *)

\* calendar days are 0..MaxDay
MaxDay == 2
\* the ledger holds at most MaxRecords lines
MaxRecords == 3
\* a price-log file holds at most MaxLines lines
MaxLines == 2

Days == 0 .. MaxDay
\* the intraday session of a day is its 09:00:00 bar
Hours == {9}
Symbols == {"AAA", "BBB"}

----------------------------------------------------------------------------
(* Timestamps *)

DateStamp(d) == [kind |-> "date", day |-> d, hour |-> 0, pad |-> TRUE]
TimeStamp(d, h) == [kind |-> "time", day |-> d, hour |-> h, pad |-> TRUE]
UnpaddedStamp(d, h) == [kind |-> "time", day |-> d, hour |-> h, pad |-> FALSE]

DateStamps == {DateStamp(d) : d \in Days}
TimeStamps == {TimeStamp(d, h) : d \in Days, h \in Hours}
\* only a one-digit hour can be written un-padded
UnpaddedStamps == {UnpaddedStamp(d, h) : d \in Days, h \in {x \in Hours : x < 10}}
Stamps == DateStamps \cup TimeStamps
AllStamps == Stamps \cup UnpaddedStamps

\* " " in ts
HasTime(ts) == ts.kind \in {"time", "badtime"}

\* a string 'YYYY-MM-DD H:MM' whose time part has not three ':' fields
BadTimeStamp(d, h, p) == [kind |-> "badtime", day |-> d, hour |-> h, pad |-> p]

\* len(time_part.split(":")) == 3
ThreeFields(ts) == ts.kind = "time"

\* normalization flipping the padding of the hour
_normalize_timestamp_str_Flip(ts) ==
    IF ~HasTime(ts) THEN ts
    ELSE IF ~ThreeFields(ts) THEN ts
    ELSE [ts EXCEPT !.pad = ~ts.pad]

\* _normalize_timestamp_str: zero-pad the hour of a date+time string
_normalize_timestamp_str(ts) ==
    IF ~HasTime(ts) THEN ts
    ELSE IF ~ThreeFields(ts) THEN ts
    ELSE [ts EXCEPT !.pad = TRUE]

\* _parse_timestamp_to_dt / datetime.strptime: %H reads one or two digits
_parse_timestamp_to_dt(ts) ==
    IF HasTime(ts) THEN ts.day * 24 + ts.hour ELSE ts.day * 24

\* dt.strftime("%Y-%m-%d")
FormatDate(dt) == DateStamp(dt \div 24)
\* dt.strftime("%Y-%m-%d %H:%M:%S")
FormatDateTime(dt) == TimeStamp(dt \div 24, dt % 24)

\* datetime.weekday(): Monday is 0, Saturday 5, Sunday 6
Weekday(d) == (d + 4) % 7

----------------------------------------------------------------------------
(* Price log *)

AbsentFile == [exists |-> FALSE, lines |-> <<>>]
File(ls) == [exists |-> TRUE, lines |-> ls]

MalformedLine == [kind |-> "malformed"]
\* one JSON object: its symbol and its "Time Series*" keys in document order
RecordLine(sym, ser) == [kind |-> "record", symbol |-> sym, series |-> ser]
Series(nm, ks) == [name |-> nm, keys |-> ks]

\* _resolve_merged_file_path_for_date for market "cn", no custom path
_resolve_merged_file_path_for_date(today_date) ==
    IF HasTime(today_date) THEN priceLog.hourly ELSE priceLog.daily

\* the calendar-arithmetic fallback of get_yesterday_date
RECURSIVE SkipWeekend(_)
SkipWeekend(d) == IF Weekday(d) >= 5 THEN SkipWeekend(d - 1) ELSE d

\* the fallback stepping one calendar day back without looking at the weekday
FallbackYesterday_NoWeekendSkip(today_date) ==
    IF ~HasTime(today_date)
    THEN DateStamp(today_date.day - 1)
    ELSE FormatDateTime(_parse_timestamp_to_dt(today_date) - 1)

FallbackYesterday(today_date) ==
    IF ~HasTime(today_date)
    THEN DateStamp(SkipWeekend(today_date.day - 1))
    ELSE FormatDateTime(_parse_timestamp_to_dt(today_date) - 1)

\* keys of the first "Time Series*" entry of every parsable line
AllTimestampsOf(file) ==
    UNION {file.lines[i].series[1].keys :
             i \in {j \in 1 .. Len(file.lines) :
                      /\ file.lines[j].kind = "record"
                      /\ Len(file.lines[j].series) > 0}}

\* strptime(ts_str, "%Y-%m-%d %H:%M:%S") succeeds only on a date+time key
EarlierParsed(all_timestamps, input_dt) ==
    {_parse_timestamp_to_dt(ts) :
        ts \in {k \in all_timestamps :
                  HasTime(k) /\ _parse_timestamp_to_dt(k) < input_dt}}

SetMax(S) == CHOOSE x \in S : \A y \in S : y <= x

get_yesterday_date(today_date) ==
    LET input_dt == _parse_timestamp_to_dt(today_date)
        merged_file == _resolve_merged_file_path_for_date(today_date)
        all_timestamps == AllTimestampsOf(merged_file)
        earlier == EarlierParsed(all_timestamps, input_dt)
    IN  IF ~merged_file.exists THEN FallbackYesterday(today_date)
        ELSE IF all_timestamps = {} THEN FallbackYesterday(today_date)
        ELSE IF earlier = {} THEN FallbackYesterday(today_date)
        ELSE IF ~HasTime(today_date) THEN FormatDate(SetMax(earlier))
        ELSE FormatDateTime(SetMax(earlier))

----------------------------------------------------------------------------
(* Position ledger *)

EmptyPositions == [k \in {} |-> 0]
\* truthiness of a dict: a non-empty dict is true
NonEmpty(positions) == DOMAIN positions # {}

NoMatch == [id |-> -1, positions |-> EmptyPositions]

\* json.loads(line) returns a document: the line is no damaged text
ParsesAsJson(line) == line # MalformedLine
\* the document has a "date" key
HasDate(doc) == "date" \in DOMAIN doc

\* the scan loop keeping the first line of the date, whatever the ids
RECURSIVE ScanDate_FirstMatch(_, _, _, _)
ScanDate_FirstMatch(recs, date, i, acc) ==
    IF i > Len(recs) THEN acc
    ELSE IF /\ ParsesAsJson(recs[i])
            /\ HasDate(recs[i])
            /\ recs[i].date = date
            /\ acc.id < 0
         THEN ScanDate_FirstMatch(recs, date, i + 1,
                       [id |-> recs[i].id, positions |-> recs[i].positions])
         ELSE ScanDate_FirstMatch(recs, date, i + 1, acc)

\* the scan loop giving up at the first line json.loads rejects
RECURSIVE ScanDate_StopsAtMalformed(_, _, _, _)
ScanDate_StopsAtMalformed(recs, date, i, acc) ==
    IF i > Len(recs) THEN acc
    ELSE IF ~ParsesAsJson(recs[i]) THEN acc
    ELSE IF HasDate(recs[i]) /\ recs[i].date = date /\ recs[i].id > acc.id
         THEN ScanDate_StopsAtMalformed(recs, date, i + 1,
                       [id |-> recs[i].id, positions |-> recs[i].positions])
         ELSE ScanDate_StopsAtMalformed(recs, date, i + 1, acc)

\* the scan loop shared by get_today_init_position and get_latest_position:
\* among the lines whose date equals `date`, keep the first one of greatest
\* id; a line json.loads rejects is passed over (except Exception: continue)
\* and doc.get("date") of a document without a date equals no date
RECURSIVE ScanDate(_, _, _, _)
ScanDate(recs, date, i, acc) ==
    IF i > Len(recs) THEN acc
    ELSE IF /\ ParsesAsJson(recs[i])
            /\ HasDate(recs[i])
            /\ recs[i].date = date
            /\ recs[i].id > acc.id
         THEN ScanDate(recs, date, i + 1,
                       [id |-> recs[i].id, positions |-> recs[i].positions])
         ELSE ScanDate(recs, date, i + 1, acc)

\* get_today_init_position reading the first line of the previous session
get_today_init_position_FirstLine(today_date) ==
    IF ~ledgerExists THEN EmptyPositions
    ELSE ScanDate_FirstMatch(ledger, get_yesterday_date(today_date), 1, NoMatch).positions

\* get_today_init_position reading the lines of today_date itself
get_today_init_position_NoLookBack(today_date) ==
    IF ~ledgerExists THEN EmptyPositions
    ELSE ScanDate(ledger, today_date, 1, NoMatch).positions

\* get_today_init_position(today_date, signature)
get_today_init_position(today_date) ==
    IF ~ledgerExists THEN EmptyPositions
    ELSE ScanDate(ledger, get_yesterday_date(today_date), 1, NoMatch).positions

\* step 3 of get_latest_position: the lines dated strictly before today_date
\* (normalized, parsed) whose positions are not empty, in file order
EarlierRecords(recs, today_date) ==
    LET today_dt == _parse_timestamp_to_dt(_normalize_timestamp_str(today_date))
        Keep(doc) ==
            /\ ParsesAsJson(doc)
            /\ HasDate(doc)
            /\ _parse_timestamp_to_dt(_normalize_timestamp_str(doc.date)) < today_dt
            /\ NonEmpty(doc.positions)
    IN  SelectSeq(recs, Keep)

SortKey(doc) ==
    <<_parse_timestamp_to_dt(_normalize_timestamp_str(doc.date)), doc.id>>
KeyLess(a, b) == a[1] < b[1] \/ (a[1] = b[1] /\ a[2] < b[2])

\* step 3 taking the first line kept, without sorting
FirstSortedDescending_Unsorted(all_records) == all_records[1]

\* all_records.sort(key=..., reverse=True)[0]: list.sort is stable, so of the
\* lines with the greatest key the one that comes first in the file is first
FirstSortedDescending(all_records) ==
    LET n == Len(all_records)
        i == CHOOSE i \in 1 .. n :
                /\ \A j \in 1 .. n :
                      ~KeyLess(SortKey(all_records[i]), SortKey(all_records[j]))
                /\ \A j \in 1 .. (i - 1) :
                      KeyLess(SortKey(all_records[j]), SortKey(all_records[i]))
    IN  all_records[i]

\* get_latest_position(today_date, signature): <<positions, max_id>>
\* get_latest_position answering id 0 for a ledger file that does not exist
get_latest_position_ZeroId(today_date) ==
    LET today == ScanDate(ledger, today_date, 1, NoMatch)
        prev == ScanDate(ledger, get_yesterday_date(today_date), 1, NoMatch)
        all_records == EarlierRecords(ledger, today_date)
    IN  IF ~ledgerExists THEN <<EmptyPositions, 0>>
        ELSE IF today.id >= 0 /\ NonEmpty(today.positions)
        THEN <<today.positions, today.id>>
        ELSE IF (prev.id < 0 \/ ~NonEmpty(prev.positions)) /\ Len(all_records) > 0
        THEN <<FirstSortedDescending(all_records).positions,
               FirstSortedDescending(all_records).id>>
        ELSE <<prev.positions, prev.id>>

\* get_latest_position without its scan of all earlier lines
get_latest_position_NoFullScan(today_date) ==
    LET today == ScanDate(ledger, today_date, 1, NoMatch)
        prev == ScanDate(ledger, get_yesterday_date(today_date), 1, NoMatch)
    IN  IF ~ledgerExists THEN <<EmptyPositions, -1>>
        ELSE IF today.id >= 0 /\ NonEmpty(today.positions)
        THEN <<today.positions, today.id>>
        ELSE <<prev.positions, prev.id>>

get_latest_position(today_date) ==
    LET today == ScanDate(ledger, today_date, 1, NoMatch)
        prev_date == get_yesterday_date(today_date)
        prev == ScanDate(ledger, prev_date, 1, NoMatch)
        all_records == EarlierRecords(ledger, today_date)
    IN  IF ~ledgerExists THEN <<EmptyPositions, -1>>
        ELSE IF today.id >= 0 /\ NonEmpty(today.positions)
        THEN <<today.positions, today.id>>
        ELSE IF (prev.id < 0 \/ ~NonEmpty(prev.positions)) /\ Len(all_records) > 0
        THEN <<FirstSortedDescending(all_records).positions,
               FirstSortedDescending(all_records).id>>
        ELSE <<prev.positions, prev.id>>

\* the no-trade line carrying the latest id over instead of the next one
NoTradeRecord_SameId(today_date) ==
    [date |-> today_date,
     id |-> get_latest_position(today_date)[2],
     this_action |-> "no_trade",
     positions |-> get_latest_position(today_date)[1]]

\* the line add_no_trade_record appends
NoTradeRecord(today_date) ==
    [date |-> today_date,
     id |-> get_latest_position(today_date)[2] + 1,
     this_action |-> "no_trade",
     positions |-> get_latest_position(today_date)[1]]

\* init_position without the CASH entry
InitPosition_NoCash(stock_symbols, initial_cash) ==
    [k \in stock_symbols |-> 0]

\* init_position of register_agent: every symbol at 0.0, CASH at initial_cash
InitPosition(stock_symbols, initial_cash) ==
    [k \in stock_symbols \cup {"CASH"} |->
        IF k = "CASH" THEN initial_cash ELSE 0]

\* strptime(s, "%Y-%m-%d %H:%M:%S") succeeds on a date+time string, whether
\* its hour is written with one digit or with two
ParsesAsDateTime(ts) == HasTime(ts) /\ ThreeFields(ts)

\* init_date_str of register_agent: the hour is padded only when strptime
\* rejects the date+time string, so an init_date of either form is kept
InitDateStr(init_date) ==
    IF HasTime(init_date) /\ ~ParsesAsDateTime(init_date)
    THEN [init_date EXCEPT !.pad = TRUE]
    ELSE init_date

\* the line register_agent writes (it carries no this_action)
InitialRecord(stock_symbols, initial_cash, init_date) ==
    [date |-> InitDateStr(init_date),
     id |-> 0,
     this_action |-> "none",
     positions |-> InitPosition(stock_symbols, initial_cash)]

----------------------------------------------------------------------------
(* Operations *)

\* the agent configurations a BaseAgentAStock is constructed with
AgentConfigs ==
    {[stock_symbols |-> {"AAA"}, initial_cash |-> 100000],
     [stock_symbols |-> {"AAA", "BBB"}, initial_cash |-> 50000]}

\* register_agent without its check that position.jsonl exists
RegisteredLedger_NoGuard(cfg, init_date) ==
    <<InitialRecord(cfg.stock_symbols, cfg.initial_cash, init_date)>>

\* the file after register_agent: untouched when position.jsonl exists
RegisteredLedger(cfg, init_date) ==
    IF ledgerExists THEN ledger
    ELSE <<InitialRecord(cfg.stock_symbols, cfg.initial_cash, init_date)>>

\* BaseAgentAStock.register_agent
RegisterAgent(cfg, init_date) ==
    /\ ledger' = RegisteredLedger(cfg, init_date)
    /\ ledgerExists' = TRUE
    /\ UNCHANGED priceLog

\* the append opening the file with "w" instead of "a"
AppendedLedger_Truncating(line) == <<line>>

\* position_file.open("a") ... f.write(line): the file with one more line
AppendedLedger(line) == Append(ledger, line)

\* add_no_trade_record: the position directory exists only once the agent is
\* registered, so the append needs the ledger
AddNoTradeRecord(today_date) ==
    /\ ledgerExists
    /\ Len(ledger) < MaxRecords
    /\ ledger' = AppendedLedger(NoTradeRecord(today_date))
    /\ UNCHANGED <<ledgerExists, priceLog>>

\* the positions after the decision loop trades one lot of AAA at 10 a lot:
\* it buys the lot when it holds none and sells it when it holds one
TradedPositions(positions) ==
    [k \in DOMAIN positions |->
        IF k = "AAA" THEN 1 - positions[k]
        ELSE IF k = "CASH"
             THEN (IF positions["AAA"] = 0 THEN positions[k] - 10 ELSE positions[k] + 10)
             ELSE positions[k]]

\* the snapshot the decision loop appends when it trades in a session: the
\* next id after the latest position, and the positions after the trade
TradeRecord(today_date) ==
    [date |-> today_date,
     id |-> get_latest_position(today_date)[2] + 1,
     this_action |-> "trade",
     positions |-> TradedPositions(get_latest_position(today_date)[1])]

\* a trade of the decision loop (the trade tool): it needs a position to trade
TradeSnapshot(today_date) ==
    /\ ledgerExists
    /\ Len(ledger) < MaxRecords
    /\ NonEmpty(get_latest_position(today_date)[1])
    /\ ledger' = AppendedLedger(TradeRecord(today_date))
    /\ UNCHANGED <<ledgerExists, priceLog>>

\* a call of get_latest_position: it returns a value drawn from the ledger
\* and the price log and writes nothing
GetLatestPosition(today_date) ==
    /\ get_latest_position(today_date)[2] >= -1
    /\ UNCHANGED <<ledgerExists, ledger, priceLog>>

\* a call of get_today_init_position: read-only as well
GetTodayInitPosition(today_date) ==
    /\ DOMAIN get_today_init_position(today_date) \subseteq Symbols \cup {"CASH"}
    /\ UNCHANGED <<ledgerExists, ledger, priceLog>>

----------------------------------------------------------------------------
(* Trading calendar *)

\* timestamp.startswith(date) on the strings
StartsWith(timestamp, date) ==
    IF HasTime(date) THEN timestamp = date ELSE timestamp.day = date.day

\* is_trading_day looking the date up among the daily keys only
is_trading_day_DailyOnly(date) ==
    /\ priceLog.daily.exists
    /\ \E i \in 1 .. Len(priceLog.daily.lines) :
          /\ priceLog.daily.lines[i].kind = "record"
          /\ \E s \in 1 .. Len(priceLog.daily.lines[i].series) :
                /\ priceLog.daily.lines[i].series[s].name = "Time Series (Daily)"
                /\ date \in priceLog.daily.lines[i].series[s].keys

\* is_trading_day(date, market="cn"): reads merged.jsonl whatever the date is
is_trading_day(date) ==
    LET file == priceLog.daily
        Hit(line) ==
            /\ line.kind = "record"
            /\ \/ \E s \in 1 .. Len(line.series) :
                     /\ line.series[s].name = "Time Series (Daily)"
                     /\ date \in line.series[s].keys
               \/ \E s \in 1 .. Len(line.series) :
                     \E timestamp \in line.series[s].keys :
                        StartsWith(timestamp, date)
    IN  /\ file.exists
        /\ \E i \in 1 .. Len(file.lines) : Hit(file.lines[i])

\* strptime(s, "%Y-%m-%d") raises ValueError on a string with a time part
ParsesAsDate(ts) == ~HasTime(ts)

\* the loop of get_trading_dates over the ledger lines: the latest date seen
RECURSIVE MaxDateOf(_, _, _)
MaxDateOf(recs, i, max_date) ==
    IF i > Len(recs) THEN max_date
    ELSE IF recs[i].date.day > max_date.day
         THEN MaxDateOf(recs, i + 1, recs[i].date)
         ELSE MaxDateOf(recs, i + 1, max_date)

\* trading days of first..last in ascending order
RECURSIVE TradingDatesFrom(_, _)
TradingDatesFrom(first, last) ==
    IF first > last THEN <<>>
    ELSE IF is_trading_day(DateStamp(first))
         THEN <<DateStamp(first)>> \o TradingDatesFrom(first + 1, last)
         ELSE TradingDatesFrom(first + 1, last)

\* the exceptions get_trading_dates lets through (JSONDecodeError is a
\* ValueError raised by json.loads)
Exceptions == {"JSONDecodeError", "KeyError", "ValueError"}

\* what the loop body of get_trading_dates raises on a line: json.loads,
\* doc["date"] and the two strptime calls are in no try block
LineRaises(line, max_date) ==
    IF ~ParsesAsJson(line) THEN "JSONDecodeError"
    ELSE IF ~HasDate(line) THEN "KeyError"
    ELSE IF ~ParsesAsDate(line.date) \/ ~ParsesAsDate(max_date) THEN "ValueError"
    ELSE "none"

\* get_trading_dates(init_date, end_date) on the ledger `recs` it reads:
\* the list it returns, or the exception of the first line that raises one,
\* or of the strptime calls after the loop
get_trading_dates(recs, init_date, end_date) ==
    LET raising == {i \in 1 .. Len(recs) : LineRaises(recs[i], init_date) # "none"}
        max_date == MaxDateOf(recs, 1, init_date)
    IN  IF raising # {}
        THEN LineRaises(recs[CHOOSE i \in raising : \A j \in raising : i <= j],
                        init_date)
        ELSE IF ~ParsesAsDate(init_date) \/ ~ParsesAsDate(end_date)
        THEN "ValueError"
        ELSE IF end_date.day <= max_date.day THEN <<>>
        ELSE TradingDatesFrom(max_date.day + 1, end_date.day)

\* BaseAgentAStock.get_trading_dates: registers the agent when it has no
\* ledger (and then reads no line), before any date is parsed
GetTradingDates(cfg, init_date, end_date) ==
    /\ ledger' = RegisteredLedger(cfg, init_date)
    /\ ledgerExists' = TRUE
    /\ UNCHANGED priceLog

----------------------------------------------------------------------------
(* The ledger's life: registration, sessions without a trade, queries *)

TradingDays == {d \in Days : Weekday(d) < 5}

DailyLine(sym, days) ==
    RecordLine(sym, <<Series("Time Series (Daily)", {DateStamp(d) : d \in days})>>)
HourlyLine(sym, days) ==
    RecordLine(sym, <<Series("Time Series (60min)",
                             {TimeStamp(d, h) : d \in days, h \in Hours})>>)

\* the price logs the ledger is exercised against: no files at all, and the
\* daily and hourly files of the working days
LedgerPriceLogs ==
    {[daily |-> AbsentFile, hourly |-> AbsentFile],
     [daily |-> File(<<DailyLine("AAA", TradingDays)>>),
      hourly |-> File(<<HourlyLine("AAA", TradingDays)>>)]}

\* BaseAgentAStock(max_retries=3)
max_retries == 3

\* the callers of add_no_trade_record on one ledger, and a caller that is
\* not in a call
Writers == {"first", "second"}
NoItem == [state |-> "idle"]

\* no run_date_range under way, nothing written to the configuration yet,
\* nobody in add_no_trade_record
NoStamp == [kind |-> "none", day |-> 0, hour |-> 0, pad |-> TRUE]
ReplayIdle ==
    /\ if_trade = FALSE
    /\ today_cfg = NoStamp
    /\ signature_cfg = "unset"
    /\ trading_dates = <<>>
    /\ attempt = 0
    /\ pc = "idle"
    /\ self_max_retries = max_retries
    /\ save_item = [w \in Writers |-> NoItem]

Init ==
    /\ ledgerExists = FALSE
    /\ ledger = <<>>
    /\ priceLog \in LedgerPriceLogs
    /\ ReplayIdle

\* an agent runs at one session granularity: once a session is on the ledger
\* (the line after the registration line), later sessions are stamped like it
SessionStamps ==
    IF ~ledgerExists THEN {}
    ELSE IF Len(ledger) < 2 THEN Stamps
    ELSE IF HasTime(ledger[2].date) THEN TimeStamps
    ELSE DateStamps

\* END_DATE of a run: the last day of the calendar
EndDates == {DateStamp(MaxDay)}

Next ==
    \/ \E cfg \in AgentConfigs, init_date \in AllStamps :
          RegisterAgent(cfg, init_date) /\ UNCHANGED replayVars
    \/ \E today_date \in SessionStamps :
          AddNoTradeRecord(today_date) /\ UNCHANGED replayVars
    \/ \E today_date \in SessionStamps :
          TradeSnapshot(today_date) /\ UNCHANGED replayVars
    \/ \E today_date \in Stamps :
          GetLatestPosition(today_date) /\ UNCHANGED replayVars
    \/ \E today_date \in Stamps :
          GetTodayInitPosition(today_date) /\ UNCHANGED replayVars
    \/ \E cfg \in AgentConfigs, init_date \in AllStamps, end_date \in EndDates :
          GetTradingDates(cfg, init_date, end_date) /\ UNCHANGED replayVars

Spec == Init /\ [][Next]_vars

----------------------------------------------------------------------------
(* Price reader and profit *)

\* the value of a bar field or of a result entry: a number, None (the field
\* is absent) or a string float() rejects; a price is a whole number of
\* 0.00001 units, so 10.0 is 1000000
Num(v) == [t |-> "num", v |-> v]
NoneVal == [t |-> "none", v |-> 0]
NonNumeric == [t |-> "str", v |-> 0]

\* a bar object with its "1. buy price" and "4. sell price" fields
Bar(buy, sell) == [buy |-> buy, sell |-> sell]
\* a "Time Series*" entry given with its bars
BarSeries(nm, bars) == [name |-> nm, keys |-> DOMAIN bars, bars |-> bars]
\* series.get(ts) for a key the series holds
BarOf(series, ts) ==
    IF "bars" \in DOMAIN series THEN series.bars[ts] ELSE Bar(NoneVal, NoneVal)

\* a result dict is a function from the symbols whose "<symbol>_price" key
\* it holds
EmptyPrices == [k \in {} |-> NoneVal]
\* results[key] = v
Put(d, k, v) == [x \in DOMAIN d \cup {k} |-> IF x = k THEN v ELSE d[x]]
\* results.get(key)
Get(d, k) == IF k \in DOMAIN d THEN d[k] ELSE NoneVal

\* the conversion passing on whatever the field holds
ToFloat_Unchecked(val) == val

\* float(val) if val is not None else None, inside try/except
ToFloat(val) == IF val.t = "num" THEN val ELSE NoneVal

\* the loop of get_open_prices over the lines of the file
RECURSIVE OpenPricesFrom(_, _, _, _, _)
OpenPricesFrom(lines, i, today_date, wanted, results) ==
    IF i > Len(lines) THEN results
    ELSE IF \/ lines[i].kind # "record"
            \/ lines[i].symbol \notin wanted
            \/ Len(lines[i].series) = 0
            \/ today_date \notin lines[i].series[1].keys
         THEN OpenPricesFrom(lines, i + 1, today_date, wanted, results)
         ELSE OpenPricesFrom(lines, i + 1, today_date, wanted,
                  Put(results, lines[i].symbol,
                      ToFloat(BarOf(lines[i].series[1], today_date).buy)))

\* get_open_prices(today_date, symbols, market="cn")
get_open_prices(today_date, symbols) ==
    LET merged_file == _resolve_merged_file_path_for_date(today_date)
    IN  IF ~merged_file.exists THEN EmptyPrices
        ELSE OpenPricesFrom(merged_file.lines, 1, today_date, symbols, EmptyPrices)

\* the buy and sell results of one bar: one float() that raises voids both
BarPrices(bar) ==
    IF bar.buy.t = "str" \/ bar.sell.t = "str"
    THEN <<NoneVal, NoneVal>>
    ELSE <<ToFloat(bar.buy), ToFloat(bar.sell)>>

\* the buy and sell results of a line that has no bar at the session, taken
\* from the latest earlier bar of its series instead
BarPricesAt_LookBack(series, yesterday_date) ==
    LET earlier == {k \in series.keys :
                      _parse_timestamp_to_dt(k) < _parse_timestamp_to_dt(yesterday_date)}
    IN  IF yesterday_date \in series.keys
        THEN BarPrices(BarOf(series, yesterday_date))
        ELSE IF earlier = {} THEN <<NoneVal, NoneVal>>
        ELSE BarPrices(BarOf(series,
                 CHOOSE k \in earlier :
                     \A j \in earlier :
                         _parse_timestamp_to_dt(j) <= _parse_timestamp_to_dt(k)))

\* the buy and sell results of a line: None for both without a bar at the
\* session
BarPricesAt(series, yesterday_date) ==
    IF yesterday_date \in series.keys
    THEN BarPrices(BarOf(series, yesterday_date))
    ELSE <<NoneVal, NoneVal>>

\* the loop of get_yesterday_open_and_close_price over the lines of the file
RECURSIVE YesterdayPricesFrom(_, _, _, _, _)
YesterdayPricesFrom(lines, i, yesterday_date, wanted, results) ==
    IF i > Len(lines) THEN results
    ELSE IF \/ lines[i].kind # "record"
            \/ lines[i].symbol \notin wanted
            \/ Len(lines[i].series) = 0
         THEN YesterdayPricesFrom(lines, i + 1, yesterday_date, wanted, results)
         ELSE LET p == BarPricesAt(lines[i].series[1], yesterday_date)
              IN  YesterdayPricesFrom(lines, i + 1, yesterday_date, wanted,
                      <<Put(results[1], lines[i].symbol, p[1]),
                        Put(results[2], lines[i].symbol, p[2])>>)

\* get_yesterday_open_and_close_price(today_date, symbols, market="cn"):
\* the pair (buy_results, sell_results)
get_yesterday_open_and_close_price(today_date, symbols) ==
    LET merged_file == _resolve_merged_file_path_for_date(today_date)
    IN  IF ~merged_file.exists THEN <<EmptyPrices, EmptyPrices>>
        ELSE YesterdayPricesFrom(merged_file.lines, 1,
                                 get_yesterday_date(today_date), symbols,
                                 <<EmptyPrices, EmptyPrices>>)

\* round(profit, 4) on 0.00001 units: to the nearest multiple of 10, a tie
\* to the even one
Round4(x) ==
    LET q == x \div 10
        r == x % 10
    IN  IF r < 5 THEN 10 * q
        ELSE IF r > 5 THEN 10 * (q + 1)
        ELSE IF q % 2 = 0 THEN 10 * q ELSE 10 * (q + 1)

\* get_yesterday_profit leaving out the symbols it has no profit for
get_yesterday_profit_Sparse(buy_prices, sell_prices, init_position, stock_symbols) ==
    [symbol \in {s \in stock_symbols :
                   /\ Get(buy_prices, s).t = "num"
                   /\ Get(sell_prices, s).t = "num"
                   /\ s \in DOMAIN init_position} |->
        Round4((Get(sell_prices, symbol).v - Get(buy_prices, symbol).v)
               * init_position[symbol])]

\* get_yesterday_profit(today_date, yesterday_buy_prices,
\* yesterday_sell_prices, yesterday_init_position, stock_symbols)
get_yesterday_profit(buy_prices, sell_prices, init_position, stock_symbols) ==
    [symbol \in stock_symbols |->
        LET buy_price == Get(buy_prices, symbol)
            sell_price == Get(sell_prices, symbol)
            position_weight ==
                IF symbol \in DOMAIN init_position THEN init_position[symbol] ELSE 0
        IN  IF buy_price.t = "num" /\ sell_price.t = "num" /\ position_weight > 0
            THEN Round4((sell_price.v - buy_price.v) * position_weight)
            ELSE 0]

----------------------------------------------------------------------------
(* get_yesterday_date over a family of price logs *)

\* the keys a price-log series may carry: date-only, date+time, un-padded
PrevKeys == AllStamps

\* the lines of a price log: an unparsable line, an object without any
\* "Time Series*" key, an object with one series holding one key, and an
\* object whose first series is an empty dict and whose second holds one key
PrevLines ==
    {MalformedLine, RecordLine("AAA", <<>>)}
        \cup {RecordLine("AAA", <<Series("Time Series (Daily)", {k})>>) :
                 k \in PrevKeys}
        \cup {RecordLine("AAA", <<Series("Time Series (Daily)", {}),
                                  Series("Time Series (60min)", {k})>>) :
                 k \in PrevKeys}

PrevFiles ==
    {AbsentFile} \cup
        {File(ls) : ls \in UNION {[1 .. n -> PrevLines] : n \in 0 .. MaxLines}}

\* one of merged.jsonl and merged_hourly.jsonl is the file under study, the
\* other one is absent
PrevPriceLogs ==
    {[daily |-> f, hourly |-> AbsentFile] : f \in PrevFiles}
        \cup {[daily |-> AbsentFile, hourly |-> f] : f \in PrevFiles}

InitPrev ==
    /\ ledgerExists = FALSE
    /\ ledger = <<>>
    /\ priceLog \in PrevPriceLogs
    /\ ReplayIdle

\* a call of get_yesterday_date: it reads the price log and writes nothing
GetYesterdayDate(today_date) ==
    /\ HasTime(get_yesterday_date(today_date)) = HasTime(today_date)
    /\ UNCHANGED <<ledgerExists, ledger, priceLog>>

\* a call of is_trading_day: read-only
IsTradingDay(date) ==
    /\ is_trading_day(date) \in BOOLEAN
    /\ UNCHANGED <<ledgerExists, ledger, priceLog>>

NextPrev ==
    \/ \E today_date \in Stamps :
          GetYesterdayDate(today_date) /\ UNCHANGED replayVars
    \/ \E date \in Stamps : IsTradingDay(date) /\ UNCHANGED replayVars

SpecPrev == InitPrev /\ [][NextPrev]_vars

----------------------------------------------------------------------------
(* The price reader over a family of price logs *)

\* the bars of the logs: 10.0 -> 11.0, 10.0 -> 10.00002, no buy price, a
\* buy price that is no number
PriceBars ==
    {Bar(Num(1000000), Num(1100000)),
     Bar(Num(1000000), Num(1000002)),
     Bar(NoneVal, Num(1100000)),
     Bar(NonNumeric, Num(1100000))}

\* the lines of a price log whose series are keyed by `keys`: an unparsable
\* line, and the object of a symbol with one bar
PriceLines(nm, keys) ==
    {MalformedLine}
        \cup {RecordLine(sym, <<BarSeries(nm, [k \in {key} |-> bar])>>) :
                 sym \in Symbols, key \in keys, bar \in PriceBars}

\* a price log holds one object per tracked symbol
PriceFiles(nm, keys) ==
    {File(ls) : ls \in UNION {[1 .. n -> PriceLines(nm, keys)] :
                                n \in 0 .. Cardinality(Symbols)}}

\* the daily log with date keys or the hourly log with date+time keys, the
\* other file being absent, or no file at all
ReaderPriceLogs ==
    {[daily |-> AbsentFile, hourly |-> AbsentFile]}
        \cup {[daily |-> f, hourly |-> AbsentFile] :
                 f \in PriceFiles("Time Series (Daily)", DateStamps)}
        \cup {[daily |-> AbsentFile, hourly |-> f] :
                 f \in PriceFiles("Time Series (60min)", TimeStamps)}

InitPrice ==
    /\ ledgerExists = FALSE
    /\ ledger = <<>>
    /\ priceLog \in ReaderPriceLogs
    /\ ReplayIdle

\* the symbol lists of a query, and the positions a profit is asked for
SymbolLists == SUBSET Symbols \ {{}}
Quantities == {0, 1, 100}
HeldPositions == UNION {[S -> Quantities] : S \in SUBSET Symbols}

\* a call of get_open_prices: read-only
GetOpenPrices(today_date, symbols) ==
    /\ DOMAIN get_open_prices(today_date, symbols) \subseteq symbols
    /\ UNCHANGED vars

\* a call of get_yesterday_open_and_close_price: read-only
GetYesterdayOpenAndClosePrice(today_date, symbols) ==
    /\ DOMAIN get_yesterday_open_and_close_price(today_date, symbols)[1]
           \subseteq symbols
    /\ UNCHANGED vars

\* the profit of the system prompt: get_yesterday_profit on the prices of the
\* previous session
GetYesterdayProfit(today_date, symbols, init_position) ==
    /\ DOMAIN get_yesterday_profit(
                  get_yesterday_open_and_close_price(today_date, symbols)[1],
                  get_yesterday_open_and_close_price(today_date, symbols)[2],
                  init_position, symbols) \subseteq Symbols
    /\ UNCHANGED vars

NextPrice ==
    \/ \E today_date \in Stamps, symbols \in SymbolLists :
          GetOpenPrices(today_date, symbols)
    \/ \E today_date \in Stamps, symbols \in SymbolLists :
          GetYesterdayOpenAndClosePrice(today_date, symbols)
    \/ \E today_date \in Stamps, symbols \in SymbolLists,
          init_position \in HeldPositions :
          GetYesterdayProfit(today_date, symbols, init_position)

SpecPrice == InitPrice /\ [][NextPrice]_vars

----------------------------------------------------------------------------
(* _normalize_timestamp_str over the timestamp strings *)

\* the hours of a day, and the strings of every form: date-only, date+time
\* with the hour padded or (below 10) un-padded, and a two-field time part
NormHours == 0 .. 23
NormStamps ==
    DateStamps
        \cup {TimeStamp(d, h) : d \in Days, h \in NormHours}
        \cup {UnpaddedStamp(d, h) : d \in Days, h \in {x \in NormHours : x < 10}}
        \cup {BadTimeStamp(d, h, TRUE) : d \in Days, h \in NormHours}
        \cup {BadTimeStamp(d, h, FALSE) : d \in Days, h \in {x \in NormHours : x < 10}}

\* TODAY_DATE holds a string of any of these forms
InitNorm ==
    /\ ledgerExists = FALSE
    /\ ledger = <<>>
    /\ priceLog = [daily |-> AbsentFile, hourly |-> AbsentFile]
    /\ if_trade = FALSE
    /\ today_cfg \in NormStamps
    /\ signature_cfg = "unset"
    /\ trading_dates = <<>>
    /\ attempt = 0
    /\ pc = "idle"
    /\ self_max_retries = max_retries
    /\ save_item = [w \in Writers |-> NoItem]

\* the timestamp is normalized in place
NormalizeTimestamp ==
    /\ today_cfg' = _normalize_timestamp_str(today_cfg)
    /\ UNCHANGED <<ledgerExists, ledger, priceLog, if_trade, signature_cfg,
                   trading_dates, attempt, pc, self_max_retries, save_item>>

NextNorm == NormalizeTimestamp

SpecNorm == InitNorm /\ [][NextNorm]_vars

----------------------------------------------------------------------------
(* The queries over damaged files *)

\* the lines of a damaged ledger: a line json.loads rejects, and snapshots
\* of one agent that differ in their CASH
DamagedLedgerLines ==
    {MalformedLine}
        \cup {[date |-> DateStamp(d), id |-> i, this_action |-> "no_trade",
               positions |-> InitPosition({"AAA"}, 100000 - (2 * d + i))] :
                 d \in 0 .. 1, i \in 0 .. 1}
        \cup {[id |-> 2, this_action |-> "no_trade",
               positions |-> InitPosition({"AAA"}, 99990)],
              [date |-> TimeStamp(0, 9), id |-> 3, this_action |-> "no_trade",
               positions |-> InitPosition({"AAA"}, 99980)]}

DamagedLedgers ==
    UNION {[1 .. n -> DamagedLedgerLines] : n \in 0 .. MaxLines}

\* a ledger read together with the damaged price logs
SampleLedgers ==
    {<<>>,
     <<MalformedLine,
       [date |-> DateStamp(0), id |-> 0, this_action |-> "no_trade",
        positions |-> InitPosition({"AAA"}, 100000)]>>}

\* the lines of a damaged price log whose series are keyed by `keys`: a line
\* json.loads rejects, and the object of AAA with one bar 10.0 -> 11.0
DamagedPriceLines(nm, keys) ==
    {MalformedLine}
        \cup {RecordLine("AAA", <<BarSeries(nm, [k \in {key} |->
                                      Bar(Num(1000000), Num(1100000))])>>) :
                 key \in keys}

DamagedPriceFiles(nm, keys) ==
    {File(ls) : ls \in UNION {[1 .. n -> DamagedPriceLines(nm, keys)] :
                                n \in 0 .. MaxLines}}

DamagedPriceLogs ==
    {[daily |-> f, hourly |-> AbsentFile] :
        f \in DamagedPriceFiles("Time Series (Daily)", DateStamps)}
        \cup {[daily |-> AbsentFile, hourly |-> f] :
                 f \in DamagedPriceFiles("Time Series (60min)", TimeStamps)}

\* a pair of price logs read together with the damaged ledgers
SamplePriceLogs ==
    {[daily |-> AbsentFile, hourly |-> AbsentFile],
     [daily |-> File(<<MalformedLine, DailyLine("AAA", TradingDays)>>),
      hourly |-> File(<<MalformedLine, HourlyLine("AAA", TradingDays)>>)]}

\* damaged ledgers over the sample price logs, and damaged price logs over
\* the sample ledgers
InitMalformed ==
    /\ ledgerExists = TRUE
    /\ \/ ledger \in DamagedLedgers /\ priceLog \in SamplePriceLogs
       \/ ledger \in SampleLedgers /\ priceLog \in DamagedPriceLogs
    /\ ReplayIdle

\* the sequence without its i-th line
WithoutLine(lines, i) ==
    [j \in 1 .. (Len(lines) - 1) |-> IF j < i THEN lines[j] ELSE lines[j + 1]]

\* the environment takes one damaged line out of position.jsonl
RepairLedger ==
    /\ \E i \in 1 .. Len(ledger) :
          /\ ~ParsesAsJson(ledger[i])
          /\ ledger' = WithoutLine(ledger, i)
    /\ UNCHANGED <<ledgerExists, priceLog, replayVars>>

\* the environment takes one damaged line out of a price log
RepairPriceLog ==
    /\ \E name \in {"daily", "hourly"} :
          \E i \in 1 .. Len(priceLog[name].lines) :
             /\ priceLog[name].lines[i] = MalformedLine
             /\ priceLog' = [priceLog EXCEPT
                                ![name].lines = WithoutLine(priceLog[name].lines, i)]
    /\ UNCHANGED <<ledgerExists, ledger, replayVars>>

NextMalformed ==
    \/ RepairLedger
    \/ RepairPriceLog
    \/ \E date \in Stamps : IsTradingDay(date) /\ UNCHANGED replayVars
    \/ \E today_date \in Stamps :
          GetYesterdayDate(today_date) /\ UNCHANGED replayVars
    \/ \E today_date \in Stamps, symbols \in SymbolLists :
          GetOpenPrices(today_date, symbols)
    \/ \E today_date \in Stamps, symbols \in SymbolLists :
          GetYesterdayOpenAndClosePrice(today_date, symbols)
    \/ \E today_date \in Stamps :
          GetTodayInitPosition(today_date) /\ UNCHANGED replayVars
    \/ \E today_date \in Stamps :
          GetLatestPosition(today_date) /\ UNCHANGED replayVars
    \/ \E cfg \in AgentConfigs, init_date \in DateStamps, end_date \in EndDates :
          GetTradingDates(cfg, init_date, end_date) /\ UNCHANGED replayVars

SpecMalformed == InitMalformed /\ [][NextMalformed]_vars

----------------------------------------------------------------------------
(* run_date_range: the replay of the pending sessions *)

\* self.signature of the agent replayed
Signature == "astock-agent"
\* the max_retries an agent is constructed with: none up to the default
RetryLimits == 0 .. max_retries

\* the init dates of a replay: the default init_date "2025-10-09", the
\* Thursday before day 0, and day 0 itself
ReplayInitDates == {DateStamp(-1), DateStamp(0)}
\* the replay runs to the Monday after the last day of the calendar
ReplayEndDates == {DateStamp(MaxDay + 1)}
ReplayTradingDays == {d \in -1 .. MaxDay + 1 : Weekday(d) < 5}

ReplayPriceLogs ==
    {[daily |-> AbsentFile, hourly |-> AbsentFile],
     [daily |-> File(<<DailyLine("AAA", ReplayTradingDays)>>),
      hourly |-> File(<<HourlyLine("AAA", ReplayTradingDays)>>)]}

InitReplay ==
    /\ ledgerExists = FALSE
    /\ ledger = <<>>
    /\ priceLog \in ReplayPriceLogs
    /\ if_trade = FALSE
    /\ today_cfg = NoStamp
    /\ signature_cfg = "unset"
    /\ trading_dates = <<>>
    /\ attempt = 0
    /\ pc = "idle"
    /\ self_max_retries \in RetryLimits
    /\ save_item = [w \in Writers |-> NoItem]

\* run_date_range up to its loop: get_trading_dates (which registers a new
\* agent), then return when nothing is pending; a ValueError of
\* get_trading_dates propagates
RunDateRange(cfg, init_date, end_date) ==
    /\ pc \in {"idle", "done", "raised"}
    /\ GetTradingDates(cfg, init_date, end_date)
    /\ LET r == get_trading_dates(IF ledgerExists THEN ledger ELSE <<>>,
                                  init_date, end_date)
       IN  IF r \in Exceptions
           THEN trading_dates' = <<>> /\ pc' = "raised"
           ELSE trading_dates' = r /\ pc' = (IF r = <<>> THEN "done" ELSE "date")
    /\ attempt' = 0
    /\ UNCHANGED <<if_trade, today_cfg, signature_cfg, self_max_retries, save_item>>

\* the loop body of run_date_range down to the trading loop of the first
\* attempt: TODAY_DATE and SIGNATURE are written, run_with_retry starts
\* run_trading_session; with max_retries below 1 range(1, max_retries + 1)
\* is empty, run_with_retry returns at once and the loop goes on
StartSession ==
    /\ pc = "date"
    /\ today_cfg' = Head(trading_dates)
    /\ signature_cfg' = Signature
    /\ IF self_max_retries < 1
       THEN /\ attempt' = 0
            /\ trading_dates' = Tail(trading_dates)
            /\ pc' = (IF Tail(trading_dates) = <<>> THEN "done" ELSE "date")
       ELSE /\ attempt' = 1
            /\ pc' = "loop"
            /\ UNCHANGED trading_dates
    /\ UNCHANGED <<ledgerExists, ledger, priceLog, if_trade, self_max_retries,
                   save_item>>

\* the decision loop trades: the trade tool appends the snapshot for
\* TODAY_DATE and raises IF_TRADE
Trade ==
    /\ pc = "loop"
    /\ TradeSnapshot(today_cfg)
    /\ if_trade' = TRUE
    /\ UNCHANGED <<today_cfg, signature_cfg, trading_dates, attempt, pc,
                   self_max_retries, save_item>>

\* the last failure swallowed: the replay goes on with the next date
SessionFails_Skips ==
    /\ pc = "loop"
    /\ IF attempt = self_max_retries
       THEN /\ attempt' = 0
            /\ trading_dates' = Tail(trading_dates)
            /\ pc' = (IF Tail(trading_dates) = <<>> THEN "done" ELSE "date")
       ELSE attempt' = attempt + 1 /\ pc' = "loop" /\ UNCHANGED trading_dates
    /\ UNCHANGED <<ledgerExists, ledger, priceLog, if_trade, today_cfg,
                   signature_cfg, self_max_retries, save_item>>

\* the trading loop raises: run_with_retry starts the session again, or
\* re-raises after max_retries attempts, which ends run_date_range
SessionFails ==
    /\ pc = "loop"
    /\ IF attempt = self_max_retries
       THEN attempt' = 0 /\ pc' = "raised"
       ELSE attempt' = attempt + 1 /\ pc' = "loop"
    /\ UNCHANGED <<ledgerExists, ledger, priceLog, if_trade, today_cfg,
                   signature_cfg, trading_dates, self_max_retries, save_item>>

\* the trading loop ends and _handle_trading_result runs; run_with_retry
\* returns and run_date_range moves to the next date
HandleTradingResult ==
    /\ pc = "loop"
    /\ IF if_trade
       THEN UNCHANGED <<ledgerExists, ledger, priceLog>>
       ELSE AddNoTradeRecord(Head(trading_dates))
    /\ if_trade' = FALSE
    /\ trading_dates' = Tail(trading_dates)
    /\ attempt' = 0
    /\ pc' = (IF Tail(trading_dates) = <<>> THEN "done" ELSE "date")
    /\ UNCHANGED <<today_cfg, signature_cfg, self_max_retries, save_item>>

NextReplay ==
    \/ \E cfg \in AgentConfigs, init_date \in ReplayInitDates,
          end_date \in ReplayEndDates :
          RunDateRange(cfg, init_date, end_date)
    \/ StartSession
    \/ Trade
    \/ SessionFails
    \/ HandleTradingResult

SpecReplay == InitReplay /\ [][NextReplay]_vars

----------------------------------------------------------------------------
(* add_no_trade_record called by two callers that nothing serializes *)

\* add_no_trade_record down to its write: the caller builds save_item from
\* what get_latest_position answers
WriterComputes(w, today_date) ==
    /\ ledgerExists
    /\ save_item[w] = NoItem
    /\ save_item' = [save_item EXCEPT
                        ![w] = [state |-> "built", item |-> NoTradeRecord(today_date)]]
    /\ UNCHANGED <<ledgerExists, ledger, priceLog, if_trade, today_cfg,
                   signature_cfg, trading_dates, attempt, pc, self_max_retries>>

\* the write recomputing the line from the ledger as it is when it appends
WrittenLine_Reread(w) == NoTradeRecord(save_item[w].item.date)

\* the line the caller writes: the save_item it built
WrittenLine(w) == save_item[w].item

\* the write of add_no_trade_record: the caller appends its save_item
WriterAppends(w) ==
    /\ save_item[w].state = "built"
    /\ Len(ledger) < MaxRecords
    /\ ledger' = AppendedLedger(WrittenLine(w))
    /\ save_item' = [save_item EXCEPT ![w].state = "written"]
    /\ UNCHANGED <<ledgerExists, priceLog, if_trade, today_cfg, signature_cfg,
                   trading_dates, attempt, pc, self_max_retries>>

\* a whole add_no_trade_record call made while no other call is under way
SerializedAppend(today_date) ==
    /\ \A w \in Writers : save_item[w] = NoItem
    /\ AddNoTradeRecord(today_date)
    /\ UNCHANGED replayVars

NextWriters ==
    \/ \E cfg \in AgentConfigs, init_date \in DateStamps :
          RegisterAgent(cfg, init_date) /\ UNCHANGED replayVars
    \/ \E today_date \in SessionStamps :
          SerializedAppend(today_date)
    \/ \E w \in Writers, today_date \in SessionStamps :
          WriterComputes(w, today_date)
    \/ \E w \in Writers : WriterAppends(w)

SpecWriters == Init /\ [][NextWriters]_vars

----------------------------------------------------------------------------
(* Forward replay: sessions appended in calendar order *)

\* the calendar of the forward replay: Thursday 2025-10-09 to the Monday
\* after the last day
ForwardDays == -1 .. MaxDay + 1
ForwardStamps ==
    {DateStamp(d) : d \in ForwardDays}
        \cup {TimeStamp(d, h) : d \in ForwardDays, h \in Hours}
ForwardWorkingDays == {d \in ForwardDays : Weekday(d) < 5}

\* the price logs of the forward replay: no files; the daily and hourly
\* files of the working days; a merged.jsonl that carries the 60min series
\* of the working days; and a merged.jsonl holding a Saturday bar
ForwardPriceLogs ==
    {[daily |-> AbsentFile, hourly |-> AbsentFile],
     [daily |-> File(<<DailyLine("AAA", ForwardWorkingDays)>>),
      hourly |-> File(<<HourlyLine("AAA", ForwardWorkingDays)>>)],
     [daily |-> File(<<HourlyLine("AAA", ForwardWorkingDays)>>),
      hourly |-> File(<<HourlyLine("AAA", ForwardWorkingDays)>>)],
     [daily |-> File(<<DailyLine("AAA", ForwardWorkingDays \cup {1})>>),
      hourly |-> AbsentFile]}

InitForward ==
    /\ ledgerExists = FALSE
    /\ ledger = <<>>
    /\ priceLog \in ForwardPriceLogs
    /\ ReplayIdle

\* today_date is a trading session later than the init date and not before
\* the session appended last
ForwardSession(today_date) ==
    /\ ledgerExists
    /\ is_trading_day(today_date)
    /\ _parse_timestamp_to_dt(today_date) > _parse_timestamp_to_dt(ledger[1].date)
    /\ _parse_timestamp_to_dt(today_date) >=
           _parse_timestamp_to_dt(ledger[Len(ledger)].date)

\* add_no_trade_record for the next session of a forward replay
AppendForward(today_date) ==
    /\ ForwardSession(today_date)
    /\ AddNoTradeRecord(today_date)
    /\ UNCHANGED replayVars

\* the init dates of the forward replay, the hour padded or not
ForwardInitDates ==
    ForwardStamps
        \cup {UnpaddedStamp(d, h) : d \in ForwardDays, h \in {x \in Hours : x < 10}}

NextForward ==
    \/ \E cfg \in AgentConfigs, init_date \in ForwardInitDates :
          RegisterAgent(cfg, init_date) /\ UNCHANGED replayVars
    \/ \E today_date \in ForwardStamps : AppendForward(today_date)
    \/ \E today_date \in ForwardStamps :
          GetLatestPosition(today_date) /\ UNCHANGED replayVars
    \/ \E today_date \in ForwardStamps :
          GetTodayInitPosition(today_date) /\ UNCHANGED replayVars

SpecForward == InitForward /\ [][NextForward]_vars

----------------------------------------------------------------------------
(* Properties of the session registrar and of the ledger file *)

\* C1: register_agent on an existing ledger is a no-op: whatever symbols,
\* cash and init date the agent carries, the file after the call is the file
\* before it (so a second registration leaves the first one's single line)
C1_RegisterIdempotent ==
    [][\A cfg \in AgentConfigs, init_date \in AllStamps :
          (ledgerExists /\ RegisterAgent(cfg, init_date))
             => (ledgerExists' /\ ledger' = ledger)]_vars

\* a ledger with history that a registration with other arguments would clobber
C1_Witness ==
    /\ ledgerExists
    /\ Len(ledger) >= 2
    /\ \E cfg \in AgentConfigs, init_date \in AllStamps :
          /\ RegisteredLedger(cfg, init_date) = ledger
          /\ InitialRecord(cfg.stock_symbols, cfg.initial_cash, init_date) # ledger[1]

IsPrefix(s, t) == Len(s) <= Len(t) /\ SubSeq(t, 1, Len(s)) = s

\* C3: the ledger is append-only: over every step of registration, no-trade
\* append, trade, pending-session enumeration and position query, the lines
\* before the step are a prefix of the lines after it
C3_AppendOnly == [][IsPrefix(ledger, ledger')]_vars

\* a ledger that has been appended to twice since registration
C3_Witness == ledgerExists /\ Len(ledger) >= 3

----------------------------------------------------------------------------
(* Properties of the ids and of get_latest_position *)

\* the ledger holds only the registration line and no-trade lines
OnlyNoTradeSessions ==
    \A i \in 1 .. Len(ledger) : ledger[i].this_action # "trade"

\* C4: ids are never reused or decremented: after register_agent and any
\* add_no_trade_record calls run one after the other with any timestamps, no
\* two lines carry the same id and every appended line's id is greater than
\* every id already in the file, i.e. the ids strictly increase in file order
C4_IdsNeverReused ==
    OnlyNoTradeSessions =>
        \A i, j \in 1 .. Len(ledger) : i < j => ledger[i].id < ledger[j].id

DatedAt(date) == {i \in 1 .. Len(ledger) : ledger[i].date = date}

\* of the lines dated `date`, the one of greatest id (the first such in the file)
TopDatedAt(date) ==
    CHOOSE i \in DatedAt(date) :
        /\ \A j \in DatedAt(date) : ledger[j].id <= ledger[i].id
        /\ \A j \in DatedAt(date) : j < i => ledger[j].id < ledger[i].id

ParsedDate(i) == _parse_timestamp_to_dt(_normalize_timestamp_str(ledger[i].date))

\* the lines dated strictly before t that hold a position
EarlierHeld(t) ==
    {i \in 1 .. Len(ledger) :
        /\ ParsedDate(i) < _parse_timestamp_to_dt(_normalize_timestamp_str(t))
        /\ NonEmpty(ledger[i].positions)}

\* the first of them under descending (parsed date, id) order
LatestEarlierHeld(t) ==
    CHOOSE i \in EarlierHeld(t) :
        \A j \in EarlierHeld(t) :
            \/ ParsedDate(j) < ParsedDate(i)
            \/ ParsedDate(j) = ParsedDate(i) /\ ledger[j].id < ledger[i].id
            \/ ParsedDate(j) = ParsedDate(i) /\ ledger[j].id = ledger[i].id /\ i <= j

LineResult(i) == <<ledger[i].positions, ledger[i].id>>

C7_WitnessPrevious ==
    \E t \in Stamps :
        /\ ledgerExists
        /\ DatedAt(t) = {}
        /\ DatedAt(get_yesterday_date(t)) # {}
        /\ \E i \in EarlierHeld(t) : ParsedDate(i) >
                     _parse_timestamp_to_dt(get_yesterday_date(t))
        /\ get_latest_position(t) = LineResult(TopDatedAt(get_yesterday_date(t)))
        /\ NonEmpty(get_latest_position(t)[1])

\* C8: for sessions d1 < d2 that both have lines in the ledger, the id
\* get_latest_position(d2) returns is at least the id of every line dated d1
\* or earlier
C8_LaterSessionHasLaterId ==
    OnlyNoTradeSessions =>
        \A d1, d2 \in Stamps :
            (/\ DatedAt(d1) # {}
             /\ DatedAt(d2) # {}
             /\ _parse_timestamp_to_dt(d1) < _parse_timestamp_to_dt(d2)) =>
                \A i \in 1 .. Len(ledger) :
                    ParsedDate(i) <= _parse_timestamp_to_dt(d1) =>
                        get_latest_position(d2)[2] >= ledger[i].id

\* C9: get_today_init_position(t) returns the positions of the highest-id
\* line among the lines dated previousSession(t), and an empty map when the
\* ledger file is absent or no line has that date
C9_InitialPosition ==
    \A t \in Stamps :
        get_today_init_position(t) =
            IF ledgerExists /\ DatedAt(get_yesterday_date(t)) # {}
            THEN ledger[TopDatedAt(get_yesterday_date(t))].positions
            ELSE EmptyPositions

\* the previous session holds the lines id 0 and id 1 with different
\* positions, and the query returns those of id 1
C9_Witness ==
    \E t \in Stamps :
        LET p == get_yesterday_date(t)
        IN  /\ \E i, j \in DatedAt(p) :
                  /\ ledger[i].id = 0
                  /\ ledger[j].id = 1
                  /\ ledger[i].positions # ledger[j].positions
                  /\ get_today_init_position(t) = ledger[j].positions
            /\ Cardinality(DatedAt(p)) = 2

----------------------------------------------------------------------------
(* Properties of get_yesterday_date *)

\* every key of every "Time Series*" entry of every parsable line
AllSeriesKeys(file) ==
    UNION {UNION {ln.series[n].keys : n \in 1 .. Len(ln.series)} :
             ln \in {file.lines[j] :
                       j \in {i \in 1 .. Len(file.lines) :
                                file.lines[i].kind = "record"}}}

\* the session timestamps of the log that lie strictly before t, parsed
EarlierInLog(t) ==
    {dt \in {_parse_timestamp_to_dt(_normalize_timestamp_str(k)) :
               k \in AllSeriesKeys(_resolve_merged_file_path_for_date(t))} :
        dt < _parse_timestamp_to_dt(t)}

\* C10: for every timestamp t and every price log holding a session
\* timestamp strictly earlier than t, get_yesterday_date(t) is the latest such
\* timestamp over all series of all records, rendered in the granularity of
\* t; the calendar fallback is taken only when the log has no earlier timestamp
C10_PreviousSessionPrimary ==
    \A t \in Stamps :
        (/\ _resolve_merged_file_path_for_date(t).exists
         /\ EarlierInLog(t) # {}) =>
            get_yesterday_date(t) =
                IF HasTime(t) THEN FormatDateTime(SetMax(EarlierInLog(t)))
                ELSE FormatDate(SetMax(EarlierInLog(t)))

\* the latest calendar day before d that is neither Saturday nor Sunday
LatestWeekdayBefore(d) ==
    CHOOSE x \in (d - 7) .. (d - 1) :
        /\ Weekday(x) < 5
        /\ \A y \in (x + 1) .. (d - 1) : Weekday(y) >= 5

\* C11: when the price log is missing, holds no timestamps or holds none
\* strictly earlier than t, get_yesterday_date(t) is the latest weekday before
\* t for a date-only t and t minus one hour for a date+time t; the result is
\* strictly earlier than t and of the granularity of t
C11_PreviousSessionFallback ==
    \A t \in Stamps :
        (\/ ~_resolve_merged_file_path_for_date(t).exists
         \/ AllSeriesKeys(_resolve_merged_file_path_for_date(t)) = {}
         \/ EarlierInLog(t) = {}) =>
            /\ ~HasTime(t) =>
                  get_yesterday_date(t) = DateStamp(LatestWeekdayBefore(t.day))
            /\ HasTime(t) =>
                  /\ HasTime(get_yesterday_date(t))
                  /\ get_yesterday_date(t).pad
                  /\ _parse_timestamp_to_dt(get_yesterday_date(t)) =
                         _parse_timestamp_to_dt(t) - 1
            /\ _parse_timestamp_to_dt(get_yesterday_date(t)) <
                   _parse_timestamp_to_dt(t)
            /\ HasTime(get_yesterday_date(t)) = HasTime(t)

\* a log that holds timestamps, none of them before a Sunday query, which is
\* answered with the Friday two days back
C11_Witness ==
    \E t \in DateStamps :
        /\ _resolve_merged_file_path_for_date(t).exists
        /\ AllSeriesKeys(_resolve_merged_file_path_for_date(t)) # {}
        /\ EarlierInLog(t) = {}
        /\ Weekday(t.day) = 6
        /\ get_yesterday_date(t) = DateStamp(t.day - 2)

----------------------------------------------------------------------------
(* Properties of the trading calendar *)

\* the keys of the "Time Series (Daily)" entries of the parsable lines
DailyKeys(file) ==
    UNION {UNION {ln.series[n].keys :
                    n \in {m \in 1 .. Len(ln.series) :
                             ln.series[m].name = "Time Series (Daily)"}} :
             ln \in {file.lines[j] :
                       j \in {i \in 1 .. Len(file.lines) :
                                file.lines[i].kind = "record"}}}

\* C12: is_trading_day(d) is true exactly when d is a key of some line's
\* daily series or some series timestamp of the price log starts with d; it
\* is false when the price-log file is absent
C12_TradingSession ==
    \A d \in Stamps :
        /\ is_trading_day(d) <=>
              /\ priceLog.daily.exists
              /\ \/ d \in DailyKeys(priceLog.daily)
                 \/ \E k \in AllSeriesKeys(priceLog.daily) : StartsWith(k, d)
        /\ ~priceLog.daily.exists => ~is_trading_day(d)

\* a Saturday that no series mentions is not a session, while a day that is
\* no key itself is one through the intraday timestamp it is the prefix of
C12_Witness ==
    /\ priceLog.daily.exists
    /\ \E d \in DateStamps :
          /\ Weekday(d.day) = 5
          /\ ~is_trading_day(d)
    /\ \E d \in DateStamps :
          /\ d \notin AllSeriesKeys(priceLog.daily)
          /\ is_trading_day(d)

\* the lines get_trading_dates reads: none when it has just registered
LedgerRead == IF ledgerExists THEN ledger ELSE <<>>

\* the later of the init date and the latest date recorded in the ledger
LastKnownDay(init_date) ==
    SetMax({init_date.day} \cup {ledger[i].date.day : i \in 1 .. Len(LedgerRead)})

\* the calendar days after `last` up to `end` that are trading sessions
PendingDays(last, end) ==
    {d \in (last + 1) .. end : is_trading_day(DateStamp(d))}

\* C13: get_trading_dates returns exactly the days d with
\* lastKnownDate < d <= end_date that are trading sessions, strictly
\* ascending, lastKnownDate being the later of the init date and the latest
\* ledger date; it returns the empty list when end_date <= lastKnownDate
C13_PendingSessions ==
    \A init_date \in Stamps, end_date \in EndDates :
        LET r == get_trading_dates(LedgerRead, init_date, end_date)
            last == LastKnownDay(init_date)
        IN  /\ r # "ValueError"
            /\ {r[i] : i \in 1 .. Len(r)} =
                   {DateStamp(d) : d \in PendingDays(last, end_date.day)}
            /\ \A i, j \in 1 .. Len(r) : i < j => r[i].day < r[j].day
            /\ end_date.day <= last => r = <<>>

\* the same statement for date-only init dates over ledgers whose lines are
\* all dated date-only, where no strptime raises
C13_PendingSessions_DateOnly ==
    \A init_date \in DateStamps, end_date \in EndDates :
        (\A i \in 1 .. Len(LedgerRead) : ~HasTime(ledger[i].date)) =>
            LET r == get_trading_dates(LedgerRead, init_date, end_date)
                last == LastKnownDay(init_date)
            IN  /\ r # "ValueError"
                /\ {r[i] : i \in 1 .. Len(r)} =
                       {DateStamp(d) : d \in PendingDays(last, end_date.day)}
                /\ \A i, j \in 1 .. Len(r) : i < j => r[i].day < r[j].day
                /\ end_date.day <= last => r = <<>>

----------------------------------------------------------------------------
(* Properties of the replay *)

\* a session is processed to completion: _handle_trading_result returns
SessionCompletes == pc = "loop" /\ pc' \in {"date", "done"}

\* C14: every session the replay processes to completion leaves at least one
\* ledger line dated that session, a trade snapshot or the no_trade line,
\* whatever IF_TRADE held when the session started
C14_OneSnapshotPerSession ==
    [][SessionCompletes =>
          \E i \in 1 .. Len(ledger') : ledger'[i].date = Head(trading_dates)]_vars

----------------------------------------------------------------------------
(* Properties of the price reader and of the profit *)

\* the quantity of a symbol in a positions dict, 0 when it is missing
Held(init_position, symbol) ==
    IF symbol \in DOMAIN init_position THEN init_position[symbol] ELSE 0

\* both prices of the symbol are known and a quantity is held
Earns(buy_prices, sell_prices, init_position, symbol) ==
    /\ Get(buy_prices, symbol).t = "num"
    /\ Get(sell_prices, symbol).t = "num"
    /\ Held(init_position, symbol) > 0

\* (sell price - buy price) * held quantity
ExactProfit(buy_prices, sell_prices, init_position, symbol) ==
    (Get(sell_prices, symbol).v - Get(buy_prices, symbol).v)
        * Held(init_position, symbol)

\* C15 as claimed: get_yesterday_profit has an entry for every symbol, which
\* is (sell price - buy price) * held quantity when both prices are known and
\* a quantity is held, and 0.0 otherwise
C15_SessionProfit_Claimed ==
    \A t \in Stamps, symbols \in SymbolLists, init_position \in HeldPositions :
        LET buy == get_yesterday_open_and_close_price(t, symbols)[1]
            sell == get_yesterday_open_and_close_price(t, symbols)[2]
            profit == get_yesterday_profit(buy, sell, init_position, symbols)
        IN  /\ DOMAIN profit = symbols
            /\ \A s \in symbols :
                  profit[s] = IF Earns(buy, sell, init_position, s)
                              THEN ExactProfit(buy, sell, init_position, s)
                              ELSE 0

\* C15 amended: the entry of a symbol that earns is that product rounded to
\* 4 decimal places (a multiple of 0.0001 at most 0.00005 away from it)
C15_SessionProfit ==
    \A t \in Stamps, symbols \in SymbolLists, init_position \in HeldPositions :
        LET buy == get_yesterday_open_and_close_price(t, symbols)[1]
            sell == get_yesterday_open_and_close_price(t, symbols)[2]
            profit == get_yesterday_profit(buy, sell, init_position, symbols)
        IN  /\ DOMAIN profit = symbols
            /\ \A s \in symbols :
                  IF Earns(buy, sell, init_position, s)
                  THEN /\ profit[s] % 10 = 0
                       /\ profit[s] - ExactProfit(buy, sell, init_position, s) \in -5 .. 5
                  ELSE profit[s] = 0

\* bought at 10.0, sold at 11.0, 100 held: the profit is 100.0; the symbol
\* the log has no line for gets 0.0
C15_Witness ==
    \E t \in Stamps :
        LET buy == get_yesterday_open_and_close_price(t, Symbols)[1]
            sell == get_yesterday_open_and_close_price(t, Symbols)[2]
            profit == get_yesterday_profit(buy, sell, [s \in {"AAA", "BBB"} |-> 100],
                                           Symbols)
        IN  /\ Get(buy, "AAA") = Num(1000000)
            /\ Get(sell, "AAA") = Num(1100000)
            /\ "BBB" \notin DOMAIN buy
            /\ profit["AAA"] = 10000000
            /\ profit["BBB"] = 0

----------------------------------------------------------------------------
(* Properties of the ledger queries on missing files and un-padded hours *)

\* C16: without a ledger file get_latest_position returns ({}, -1) for every
\* timestamp (the call is read-only: the file stays absent)
C16_MissingLedger ==
    ~ledgerExists =>
        \A t \in AllStamps : get_latest_position(t) = <<EmptyPositions, -1>>

\* no ledger file, a price log on disk, and the query answered ({}, -1)
C16_Witness ==
    /\ ~ledgerExists
    /\ priceLog.daily.exists
    /\ \E t \in Stamps : get_latest_position(t) = <<EmptyPositions, -1>>

\* the series the file read for t holds for a symbol
SeriesOf(t, symbol) ==
    LET lines == _resolve_merged_file_path_for_date(t).lines
    IN  UNION {{ln.series[n] : n \in 1 .. Len(ln.series)} :
                 ln \in {lines[j] :
                           j \in {i \in 1 .. Len(lines) :
                                    /\ lines[i].kind = "record"
                                    /\ lines[i].symbol = symbol}}}

\* the bars it holds for the symbol at exactly the timestamp ts
BarsAt(t, symbol, ts) ==
    {BarOf(sr, ts) : sr \in {x \in SeriesOf(t, symbol) : ts \in x.keys}}

\* C17: get_open_prices never raises; looking a requested symbol up in its
\* result gives the numeric buy price of a bar of that symbol at exactly the
\* timestamp, or None (absent file, unparsable line, symbol not in the log,
\* no bar at the timestamp, absent or non-numeric buy price)
C17_OpeningPrice ==
    \A t \in Stamps, symbols \in SymbolLists :
        \A s \in symbols :
            LET price == Get(get_open_prices(t, symbols), s)
            IN  /\ price.t \in {"num", "none"}
                /\ price.t = "num" =>
                      \E bar \in BarsAt(t, s, t) : bar.buy = price
                /\ BarsAt(t, s, t) = {} => price = NoneVal

\* one symbol has a priced bar at the timestamp and gets its buy price, the
\* other has a bar whose buy price is no number and gets None
C17_Witness ==
    \E t \in Stamps :
        /\ Get(get_open_prices(t, Symbols), "AAA") = Num(1000000)
        /\ BarsAt(t, "BBB", t) = {Bar(NonNumeric, Num(1100000))}
        /\ Get(get_open_prices(t, Symbols), "BBB") = NoneVal

\* C18: get_yesterday_open_and_close_price(t) takes the buy and the sell
\* price from a bar at exactly get_yesterday_date(t): a requested symbol the
\* log has a line for but no bar at that session gets None in both maps, and
\* a price it returns is never that of a bar of another session
C18_OpenAndClosePrices ==
    \A t \in Stamps, symbols \in SymbolLists :
        \A s \in symbols :
            LET prices == get_yesterday_open_and_close_price(t, symbols)
                buy == Get(prices[1], s)
                sell == Get(prices[2], s)
                bars == BarsAt(t, s, get_yesterday_date(t))
            IN  /\ (SeriesOf(t, s) # {} /\ bars = {}) =>
                      /\ buy = NoneVal
                      /\ sell = NoneVal
                      /\ s \in DOMAIN prices[1] \cap DOMAIN prices[2]
                /\ (buy.t = "num" \/ sell.t = "num") =>
                      \E bar \in bars :
                          /\ buy = ToFloat(bar.buy)
                          /\ sell = ToFloat(bar.sell)

\* one symbol has its bar at the previous session and gets both prices; the
\* other has a bar at an earlier session only and gets None twice
C18_Witness ==
    \E t \in Stamps :
        LET prev == get_yesterday_date(t)
            prices == get_yesterday_open_and_close_price(t, Symbols)
        IN  /\ BarsAt(t, "AAA", prev) = {Bar(Num(1000000), Num(1100000))}
            /\ Get(prices[1], "AAA") = Num(1000000)
            /\ Get(prices[2], "AAA") = Num(1100000)
            /\ BarsAt(t, "BBB", prev) = {}
            /\ \E ts \in Stamps :
                  /\ _parse_timestamp_to_dt(ts) < _parse_timestamp_to_dt(prev)
                  /\ BarsAt(t, "BBB", ts) = {Bar(Num(1000000), Num(1100000))}
            /\ Get(prices[1], "BBB") = NoneVal
            /\ Get(prices[2], "BBB") = NoneVal

\* the lines whose normalized date is the normalized `date`
NormDatedAt(date) ==
    {i \in 1 .. Len(ledger) :
        _normalize_timestamp_str(ledger[i].date) = _normalize_timestamp_str(date)}

\* of those, the one of greatest id (the first such in the file)
TopNormDatedAt(date) ==
    CHOOSE i \in NormDatedAt(date) :
        /\ \A j \in NormDatedAt(date) : ledger[j].id <= ledger[i].id
        /\ \A j \in NormDatedAt(date) : j < i => ledger[j].id < ledger[i].id

\* C19: the ledger lookups compare normalized timestamps: a line dated with
\* an un-padded hour is the session of the query with the padded hour and
\* the other way round, in get_latest_position (the session's line holding
\* a position is the answer) and in get_today_init_position (the previous
\* session's line is the answer)
C19_NormalizedLookups ==
    OnlyNoTradeSessions =>
        \A t \in AllStamps :
            /\ (/\ ledgerExists
                /\ NormDatedAt(t) # {}
                /\ NonEmpty(ledger[TopNormDatedAt(t)].positions)) =>
                   get_latest_position(t) = LineResult(TopNormDatedAt(t))
            /\ (/\ ledgerExists
                /\ NormDatedAt(get_yesterday_date(t)) # {}) =>
                   get_today_init_position(t) =
                       ledger[TopNormDatedAt(get_yesterday_date(t))].positions

\* C20: register_agent writes a date+time init date that has a one-digit
\* hour with the hour zero-padded, and a date-only or already padded init
\* date unchanged
C20_RegisterNormalizesDate ==
    [][\A cfg \in AgentConfigs, init_date \in AllStamps :
          (~ledgerExists /\ RegisterAgent(cfg, init_date)) =>
              ledger'[1].date = _normalize_timestamp_str(init_date)]_vars

----------------------------------------------------------------------------
(* Properties of the timestamp normalization *)

\* C21: _normalize_timestamp_str is idempotent on every timestamp string
\* (date-only, padded or un-padded hour, malformed time part), and returns a
\* date-only string unchanged
C21_NormalizeIdempotent ==
    /\ _normalize_timestamp_str(_normalize_timestamp_str(today_cfg)) =
           _normalize_timestamp_str(today_cfg)
    /\ ~HasTime(today_cfg) => _normalize_timestamp_str(today_cfg) = today_cfg

\* a string with an un-padded hour, which the normalization changes
C21_Witness ==
    /\ today_cfg.kind = "time"
    /\ ~today_cfg.pad
    /\ _normalize_timestamp_str(today_cfg) # today_cfg
    /\ _normalize_timestamp_str(today_cfg) = TimeStamp(today_cfg.day, today_cfg.hour)

----------------------------------------------------------------------------
(* Damaged lines *)

\* the six queries answer after the step what they answered before it
QueriesUnchanged ==
    \A t \in Stamps :
       /\ is_trading_day(t)' = is_trading_day(t)
       /\ get_yesterday_date(t)' = get_yesterday_date(t)
       /\ get_today_init_position(t)' = get_today_init_position(t)
       /\ get_latest_position(t)' = get_latest_position(t)
       /\ \A symbols \in SymbolLists :
             /\ get_open_prices(t, symbols)' = get_open_prices(t, symbols)
             /\ get_yesterday_open_and_close_price(t, symbols)' =
                    get_yesterday_open_and_close_price(t, symbols)

\* C22: a line of the price log or of the ledger that fails JSON parsing is
\* ignored by is_trading_day, get_yesterday_date, get_open_prices,
\* get_yesterday_open_and_close_price, get_today_init_position and
\* get_latest_position: each of them answers on the file what it answers
\* on the file with that line taken out
C22_MalformedLinesSkipped ==
    [][(RepairLedger \/ RepairPriceLog) => QueriesUnchanged]_vars

\* a damaged first line in the ledger and in the daily log, and the queries
\* answer from the lines after it
C22_Witness ==
    /\ Len(ledger) = 2
    /\ ~ParsesAsJson(ledger[1])
    /\ ParsesAsJson(ledger[2])
    /\ get_latest_position(DateStamp(1)) = <<ledger[2].positions, ledger[2].id>>
    /\ get_today_init_position(DateStamp(1)) = ledger[2].positions
    /\ priceLog.daily.exists
    /\ Len(priceLog.daily.lines) = 2
    /\ priceLog.daily.lines[1] = MalformedLine
    /\ is_trading_day(DateStamp(1))
    /\ Get(get_open_prices(DateStamp(1), {"AAA"}), "AAA") = Num(1000000)

----------------------------------------------------------------------------
(* Pending sessions over a damaged ledger *)

\* C23: get_trading_dates returns a session list whatever the lines of the
\* ledger are: for a line that is not valid JSON, a record without a date or
\* a record dated with a time component it skips the line and raises nothing
C23_PendingNeverRaises ==
    \A init_date \in DateStamps, end_date \in EndDates :
        get_trading_dates(LedgerRead, init_date, end_date) \notin Exceptions

----------------------------------------------------------------------------
(* Callers that are not serialized *)

DuplicateIds(recs) ==
    \E i, j \in 1 .. Len(recs) : i < j /\ recs[i].id = recs[j].id

\* the other caller
Other(w) == CHOOSE o \in Writers : o # w

\* a caller appends while the other one has built its line and not yet
\* written it: both computed get_latest_position before either appended
FirstOfTwoAppends(w) ==
    WriterAppends(w) /\ save_item[Other(w)].state = "built"

\* a caller appends after the other one, which built the same id
SecondOfTwoAppends(w) ==
    /\ WriterAppends(w)
    /\ save_item[Other(w)].state = "written"
    /\ save_item[Other(w)].item.id = save_item[w].item.id

----------------------------------------------------------------------------
(* Order and halt of the replay *)

StrictlyAscending(dates) ==
    \A i, j \in 1 .. Len(dates) :
        i < j => _parse_timestamp_to_dt(dates[i]) < _parse_timestamp_to_dt(dates[j])

\* a session is under way: TODAY_DATE and SIGNATURE were written for it, it
\* is the first of the sessions left, and its attempt is within max_retries
SessionUnderWay ==
    pc = "loop" =>
        /\ today_cfg = Head(trading_dates)
        /\ signature_cfg = Signature
        /\ attempt \in 1 .. self_max_retries

\* run_date_range leaves a session behind only when run_with_retry returned
\* for it: through _handle_trading_result, or at once when max_retries
\* allows no attempt
LeavesSessionOnReturn ==
    (pc \in {"date", "loop"} /\ trading_dates' # trading_dates) =>
        /\ trading_dates' = Tail(trading_dates)
        /\ \/ pc = "loop" /\ HandleTradingResult
           \/ pc = "date" /\ self_max_retries < 1

\* the last attempt of a session fails: the run ends with the session and
\* the later ones left as they are, and nothing is started until
\* run_date_range is called again
HaltsOnFailure ==
    /\ (pc = "loop" /\ pc' = "raised") =>
           /\ attempt = self_max_retries
           /\ UNCHANGED <<trading_dates, ledger, today_cfg>>
    /\ pc = "raised" => (pc' \in {"raised", "date", "done"} /\ today_cfg' = today_cfg)

\* C25: run_date_range processes the pending sessions one at a time in
\* strictly ascending order, TODAY_DATE and SIGNATURE being written before
\* each session; when a session fails on all its attempts the exception
\* propagates and no later session is started, so no session is left
\* behind while later ones are processed
C25_ReplayOrderAndHalt ==
    /\ [](StrictlyAscending(trading_dates) /\ SessionUnderWay)
    /\ [][/\ pc = "date" =>
                 (today_cfg' = Head(trading_dates) /\ signature_cfg' = Signature)
          /\ LeavesSessionOnReturn
          /\ HaltsOnFailure]_vars

\* the first of two pending sessions has failed on all its attempts: the run
\* has ended and the later session has neither been started nor recorded
C25_Witness ==
    /\ pc = "raised"
    /\ Len(trading_dates) >= 2
    /\ today_cfg = Head(trading_dates)
    /\ signature_cfg = Signature
    /\ \A i \in 1 .. Len(ledger) : ledger[i].date # trading_dates[2]

----------------------------------------------------------------------------
(* Resuming the replay *)

\* C26: once run_date_range(init, end) has completed without error, the
\* pending sessions of the same (init, end) are none: every trading session
\* of the range has its ledger line, and running the replay again processes
\* no session
C26_ReplayResumable ==
    pc = "done" =>
        \A init_date \in ReplayInitDates, end_date \in ReplayEndDates :
            get_trading_dates(LedgerRead, init_date, end_date) = <<>>

----------------------------------------------------------------------------
(* The retry bound *)

\* run_with_retry returns to the loop of run_date_range, which leaves the
\* session behind
RunWithRetryReturns ==
    /\ pc \in {"date", "loop"}
    /\ pc' \in {"date", "done"}
    /\ trading_dates' # trading_dates

\* C27: whatever max_retries is, run_with_retry runs the session at least
\* once and at most max_retries times, returns normally only right after an
\* attempt that succeeded, and re-raises once max_retries attempts have
\* failed
C27_RetryBound ==
    /\ [](pc = "loop" => attempt \in 1 .. self_max_retries)
    /\ [][/\ pc = "date" => (pc' = "loop" /\ attempt' = 1)
          /\ RunWithRetryReturns => (pc = "loop" /\ HandleTradingResult)
          /\ (pc = "loop" /\ pc' = "raised") => attempt = self_max_retries
          /\ (SessionFails /\ attempt = self_max_retries) => pc' = "raised"]_vars

----------------------------------------------------------------------------
(* Ids under forward replay *)

\* C28: after register_agent, when add_no_trade_record is called for
\* trading sessions later than the init date in non-decreasing order, the
\* ids are 0, 1, 2, ... in append order and the dates are non-decreasing, so
\* the last line is the greatest one by (date, id)
C28_ForwardIds ==
    /\ \A i \in 1 .. Len(ledger) : ledger[i].id = i - 1
    /\ \A i, j \in 1 .. Len(ledger) :
          i <= j => ~KeyLess(SortKey(ledger[j]), SortKey(ledger[i]))

----------------------------------------------------------------------------
(* Holdings through sessions without a trade *)

\* C29: after register_agent, every line appended by sessions without a
\* trade that are processed in ascending order carries the registered
\* positions (every symbol 0.0, CASH the initial cash), also when the
\* previous session has no line in the ledger
C29_HoldingsConserved ==
    ledgerExists =>
        /\ \E cfg \in AgentConfigs :
              ledger[1].positions = InitPosition(cfg.stock_symbols, cfg.initial_cash)
        /\ \A i \in 1 .. Len(ledger) : ledger[i].positions = ledger[1].positions

\* the line appended last is of a session whose previous session, like the
\* session itself, had no line, and it carries the registered positions
C29_Witness ==
    /\ ledgerExists
    /\ Len(ledger) >= 2
    /\ ledger[Len(ledger)].this_action = "no_trade"
    /\ \A i \in 1 .. (Len(ledger) - 1) :
          /\ ledger[i].date # ledger[Len(ledger)].date
          /\ ledger[i].date # get_yesterday_date(ledger[Len(ledger)].date)
    /\ NonEmpty(ledger[Len(ledger)].positions)
    /\ ledger[Len(ledger)].positions = ledger[1].positions

----------------------------------------------------------------------------
(* The opening position of a session *)

\* no line of the ledger is dated t
NoRecordDated(t) == \A i \in 1 .. Len(ledger) : ledger[i].date # t

\* a line of the ledger is dated the previous session of t
PreviousSessionRecorded(t) ==
    \E i \in 1 .. Len(ledger) : ledger[i].date = get_yesterday_date(t)

\* C30 as stated: over a ledger made by register_agent and sessions
\* processed in ascending order, for every session t without a line dated t
\* get_today_init_position(t) returns the positions get_latest_position(t)
\* returns
C30_OpeningPosition_Claimed ==
    ledgerExists =>
        \A t \in ForwardStamps :
            NoRecordDated(t) =>
                get_today_init_position(t) = get_latest_position(t)[1]

\* C30: over such a ledger, for every session t without a line dated t
\* whose previous session has a line, get_today_init_position(t) returns
\* the positions get_latest_position(t) returns; when the previous session
\* has no line get_today_init_position(t) returns the empty map
C30_OpeningPosition ==
    ledgerExists =>
        \A t \in ForwardStamps :
            NoRecordDated(t) =>
                IF PreviousSessionRecorded(t)
                THEN get_today_init_position(t) = get_latest_position(t)[1]
                ELSE get_today_init_position(t) = EmptyPositions

\* a session after two recorded ones: its previous session has a line and
\* both queries return the positions of that line
C30_Witness ==
    /\ ledgerExists
    /\ Len(ledger) >= 2
    /\ \E t \in ForwardStamps :
          /\ NoRecordDated(t)
          /\ get_yesterday_date(t) = ledger[Len(ledger)].date
          /\ NonEmpty(get_today_init_position(t))
          /\ get_today_init_position(t) = get_latest_position(t)[1]
          /\ get_today_init_position(t) = ledger[Len(ledger)].positions

====
